---------------------------- MODULE Spec2Model ----------------------------
(***************************************************************************)
(* The ingestion orchestrator of the trend-intel service                   *)
(* (app/routers/ingest_router.py): the /ingest, /ingest/process and        *)
(* /ingest/cluster endpoints, the background tasks they schedule, the      *)
(* clustering of topic_cluster.py and the rows of models/database.py.      *)
(*                                                                         *)
(* The durable store (committed rows) and the uncommitted state of each    *)
(* background task's SQLAlchemy session are kept apart: the session        *)
(* factory is autocommit=False (utils/db.py:81-87), so a flush or an       *)
(* UPDATE is visible to its own session only, until db.commit(), and is    *)
(* discarded by db.rollback() and when the `async with SessionLocal()`     *)
(* block is left.                                                          *)
(***************************************************************************)
EXTENDS Integers, Sequences, FiniteSets, TLC

(***************************************************************************)
(* Bounds of the model.                                                    *)
(***************************************************************************)
\* IngestEvent rows in the table; ids 1..NumEvents, a larger id is a later
\* ingestedAt.
NumEvents == 13
\* In the second initial state the oldest NumPre rows carry processed = TRUE
\* (the rows the /ingest/cluster endpoint selects).
NumPre == 4

(***************************************************************************)
(* Program constants.                                                      *)
(***************************************************************************)
\* cluster_posts_background(processed_posts, 5)
MinClusterSize == 5
\* avg_age_hours = 24.0
AvgAgeHours == 24

Events == 1..NumEvents
\* The requests of one behaviour, each with its background task: two, which
\* may be in flight together or one after the other.
Runs == {1, 2}

\* request.limit values tried (the schema allows 1..1000)
Limits == {4, NumEvents}
\* request.platform of /ingest/process and /ingest/cluster: "" is no filter
PlatformFilters == {"", "TWITTER"}
\* request.min_cluster_size of /ingest/cluster (the schema allows 2..100)
ClusterSizes == {2, MinClusterSize}
\* cutoff_time of /ingest/cluster, as the oldest id still inside the timeframe
Cutoffs == {1, 3}

(***************************************************************************)
(* The content of the IngestEvent rows, fixed per id.                      *)
(***************************************************************************)
\* IngestEvent.platform
Platform(e) == IF e % 4 = 0 THEN "TIKTOK" ELSE "TWITTER"
\* likesCount + sharesCount + commentsCount of the row
Engagement(e) == 1 + (e % 3)
\* The text of the row: posts of one class are within the clustering radius
\* of each other, posts of different classes are not.
TextClass(e) == IF e % 5 = 0 THEN 2 ELSE e % 2
\* process_single_post returns None for the row (empty text, unsupported
\* language, spam or toxic).
Filtered(e) == e % 7 = 0

(***************************************************************************)
(* Topic identifiers. A TrendTopic.id is a uuid4 drawn at flush; the k-th  *)
(* cluster of run r draws <<"uuid", r, k>>. The clusterer's own 'id' of a  *)
(* cluster is the string 'topic_<k>', here <<"cluster", 0, k>>.            *)
(***************************************************************************)
NoTopic == <<"none", 0, 0>>
Uuid(r, k) == <<"uuid", r, k>>
ClusterKey(k) == <<"cluster", 0, k>>
IsUuid(t) == t[1] = "uuid"

(***************************************************************************)
(* The 'trend:*' cache entries of the listing endpoints: build_trend_key   *)
(* gives 'trend:current' to GET /trends/current and 'trend:region:<R>' to  *)
(* GET /trends/<R>; region ZA applies no region filter. A listing is the   *)
(* set of TrendTopic ids in the response.                                  *)
(***************************************************************************)
TrendKeys == {"trend:current", "trend:region:ZA"}
NoListing == [present |-> FALSE, trends |-> {}]
Listing(ids) == [present |-> TRUE, trends |-> ids]
NoRequest == [pc |-> "idle", key |-> "", listing |-> {}, status |-> 0, trends |-> {}]

VARIABLES
    processed,      \* committed IngestEvent.processed, per row
    topicId,        \* committed IngestEvent.topicId, per row
    topics,         \* committed TrendTopic rows
    history,        \* committed TrendHistory rows
    pc,             \* per run: position of the request / background task
    kind,           \* per run: "ingest", "process" or "cluster"
    req,            \* per run: the request [platform, limit, min_size, cutoff]
    batch,          \* per run: ids fetched by the endpoint, in fetch order
    stats,          \* per run: the summary the endpoint returned
    posts,          \* per run: ids handed to cluster_posts_background
    clusters,       \* per run: the list `topics` returned by cluster_posts
    idx,            \* per run: index of the next cluster of the persist loop
    topic_id,       \* per run: topic['topic_id'] per cluster (NoTopic: unset)
    outcome,        \* per run: per cluster, "ok" or "failed" (the error log)
    topics_created, \* per run: the counter of cluster_posts_background
    cluster_error,  \* per run: the step of cluster_posts that raised, or "none"
    pendTopics,     \* per run: TrendTopic rows added, not committed
    pendHistory,    \* per run: TrendHistory rows added, not committed
    txRows,         \* per run: IngestEvent row images written, not committed
    logged_error,   \* per run: the task has logged an error (logger.error)
    linked,         \* per row: topic ids that UPDATE statements have given it
    cache,          \* per 'trend:*' key: the cached listing, or NoListing
    rd,             \* the trend-listing request in progress, with its response
    classify_cache, \* the 'classify:*' cache entries
    request,        \* the last POST /classify request
    invoked,        \* the providers that request invoked
    response,       \* the ClassificationResult it returned
    calls,          \* the number of POST /classify requests so far
    metrics,        \* the last input of calculate_virality_score
    virality_metrics, \* the ViralityMetrics it returned
    trending,       \* the last call of is_trending, with its result
    cleaning,       \* the last text cleaned, its clean form, and that cleaned again
    embedding_cache, \* TopicCluster.embedding_cache: entries [key, embedding]
    embedded,       \* the last embedding call: its texts, those it computed, its result
    sentiment_cache, \* SentimentAnalyzer.cache: entries [key, result]
    analyzed,       \* the last call of SentimentAnalyzer.analyze, with its result
    is_model_loaded, \* is_model_loaded of the LanguageDetector of ingest_router
    clustering      \* the last call of TopicCluster.cluster_posts and its result

vars == <<processed, topicId, topics, history, pc, kind, req, batch, stats,
           posts, clusters, idx, topic_id, outcome, topics_created,
           cluster_error, pendTopics, pendHistory, txRows, logged_error,
           linked, cache, rd, classify_cache, request, invoked, response,
           calls, metrics, virality_metrics, trending, cleaning,
           embedding_cache, embedded, sentiment_cache, analyzed,
           is_model_loaded, clustering>>

storeVars == <<processed, topicId, topics, history>>
reqVars == <<kind, req, batch, stats>>
taskVars == <<posts, clusters, idx, topic_id, outcome, topics_created,
              cluster_error>>
logVars == <<logged_error, linked>>
sessVars == <<pendTopics, pendHistory, txRows>>
trendVars == <<cache, rd>>
classifyVars == <<classify_cache, request, invoked, response, calls>>
scoreVars == <<metrics, virality_metrics>>
trendingVars == <<trending>>
cleanVars == <<cleaning>>
embedVars == <<embedding_cache, embedded>>
sentimentVars == <<sentiment_cache, analyzed>>
wiringVars == <<is_model_loaded>>
clusterVars == <<clustering>>
\* The detector's flag, and the state of the operations checked on their own.
pureVars == <<classifyVars, scoreVars, trendingVars, cleanVars, embedVars,
               sentimentVars, wiringVars, clusterVars>>

(***************************************************************************)
(* Sequences of ids.                                                       *)
(***************************************************************************)
Range(s) == {s[i] : i \in 1..Len(s)}

Min2(a, b) == IF a < b THEN a ELSE b

Max(S) == CHOOSE x \in S : \A y \in S : y <= x

\* The ids of S, newest first: order_by(desc(IngestEvent.ingestedAt))
Desc(S) ==
    [i \in 1..Cardinality(S) |->
        CHOOSE x \in S : Cardinality({y \in S : y > x}) = i - 1]

\* .limit(n)
Take(s, n) == SubSeq(s, 1, Min2(n, Len(s)))

Reverse(s) == [i \in 1..Len(s) |-> s[Len(s) + 1 - i]]

(***************************************************************************)
(* The post dictionaries. A background task of /ingest or /ingest/process  *)
(* clusters the dictionaries process_single_post builds, which carry       *)
(* 'engagement'; the task of /ingest/cluster clusters the raw rows         *)
(* (post.__dict__), which carry no 'engagement' key.                       *)
(***************************************************************************)
\* post.get('engagement', 0)
PostEngagement(k, e) == IF k = "cluster" THEN 0 ELSE Engagement(e)

\* sum(post.get('engagement', 0) for post in posts_in_topic)
RECURSIVE TotalEngagement(_, _)
TotalEngagement(k, ps) ==
    IF ps = <<>> THEN 0
    ELSE PostEngagement(k, Head(ps)) + TotalEngagement(k, Tail(ps))

(***************************************************************************)
(* ViralityScorer. Scores and components are kept in hundredths (E = 7512  *)
(* is 75.12, Q = 120 is 1.2); the inputs sentiment, toxicity and           *)
(* language_confidence likewise (toxicity = 30 is 0.3). virality_score,    *)
(* the unrounded product of three such numbers, is kept in millionths.     *)
(***************************************************************************)
\* The metrics dictionaries tried. `fails` names the sub-calculations the
\* input makes raise (a None where a number is expected).
MetricsInputs ==
    [likes : {0, 50}, comments : {0, 2}, shares : {0, 5}, views : {0, 1000},
     sentiment : {-80, 0, 50}, toxicity : {10, 90},
     language_confidence : {0, 90}, is_spam : BOOLEAN,
     region : {"GP", "EC"}, is_sa : BOOLEAN,
     fails : SUBSET {"S", "Q"}]

NoMetrics ==
    [likes |-> 0, comments |-> 0, shares |-> 0, views |-> 0, sentiment |-> 0,
     toxicity |-> 0, language_confidence |-> 0, is_spam |-> FALSE,
     region |-> "", is_sa |-> FALSE, fails |-> {}]

ViralityMetrics(E, V, S, Q, R, score) ==
    [engagement_rate |-> E, velocity |-> V, sentiment_strength |-> S,
     quality_multiplier |-> Q, regional_weight |-> R, virality_score |-> score]

NoViralityMetrics == ViralityMetrics(0, 0, 0, 0, 0, 0)

\* metrics.get('impressions', metrics.get('views', 1)) or 1
Impressions(m) == IF m.views = 0 THEN 1 ELSE m.views

\* round(min(math.log10(raw_rate + 1) * 20, 100.0), 2) with
\* raw_rate = total_engagement / effective_impressions * 100, tabulated for
\* the engagement totals and impressions of MetricsInputs.
calculate_engagement_rate(likes, shares, comments, views, impressions) ==
    LET total_engagement == likes + comments + shares
        \* max(impressions or views or 1, 1)
        effective_impressions ==
            IF impressions # 0 THEN impressions
            ELSE IF views # 0 THEN views ELSE 1
        one == [x \in {0, 2, 5, 7, 50, 52, 55, 57} |->
                  CASE x = 0 -> 0 [] x = 2 -> 4606 [] x = 5 -> 5400
                    [] x = 7 -> 5691 [] x = 50 -> 7398 [] x = 52 -> 7432
                    [] x = 55 -> 7481 [] x = 57 -> 7512]
        thousand == [x \in {0, 2, 5, 7, 50, 52, 55, 57} |->
                  CASE x = 0 -> 0 [] x = 2 -> 158 [] x = 5 -> 352
                    [] x = 7 -> 461 [] x = 50 -> 1556 [] x = 52 -> 1585
                    [] x = 55 -> 1626 [] x = 57 -> 1652]
    IN  IF effective_impressions = 1 THEN one[total_engagement]
        ELSE thousand[total_engagement]

\* round(min(math.log10(engagement_change / time_minutes + 1) * 15, 100.0), 2)
\* tabulated for the engagement totals of MetricsInputs over 60 minutes, the
\* default of metrics.get('time_diff_minutes', 60).
calculate_velocity(current_engagement, previous_engagement, time_minutes) ==
    LET engagement_change == current_engagement - previous_engagement
        hour == [x \in {2, 5, 7, 50, 52, 55, 57} |->
                  CASE x = 2 -> 21 [] x = 5 -> 52 [] x = 7 -> 72
                    [] x = 50 -> 395 [] x = 52 -> 407 [] x = 55 -> 424
                    [] x = 57 -> 435]
    IN  IF time_minutes <= 0 THEN 0
        ELSE IF engagement_change <= 0 THEN 0
        ELSE hour[engagement_change]

Abs(x) == IF x < 0 THEN 0 - x ELSE x
Lesser(a, b) == IF a < b THEN a ELSE b
Greater(a, b) == IF a > b THEN a ELSE b

\* round(min(abs(sentiment_score) * 100, 100.0), 2); 0.0 when it raises
calculate_sentiment_strength(sentiment_score, raises) ==
    IF raises THEN 0 ELSE Lesser(Abs(sentiment_score) * 100, 10000)

\* 1.0, +0.2 below toxicity 0.3, -0.5 above 0.7, +0.1 above confidence 0.8,
\* -0.8 for spam, kept within [0.1, 1.5]; 0.5 when it raises
calculate_quality_multiplier(toxicity, language_confidence, spam, raises) ==
    LET multiplier ==
            100 + (IF toxicity < 30 THEN 20 ELSE IF toxicity > 70 THEN -50 ELSE 0)
                + (IF language_confidence > 80 THEN 10 ELSE 0)
                + (IF spam THEN -80 ELSE 0)
    IN  IF raises THEN 50 ELSE Greater(10, Lesser(multiplier, 150))

\* 1.0, +0.3 for South African content, +0.1 for GP, WC and KZN
calculate_regional_weight(region, is_sa) ==
    100 + (IF is_sa THEN 30 ELSE 0)
        + (IF region \in {"GP", "WC", "KZN"} THEN 10 ELSE 0)

\* The five components by their rules and the capped product, as the try
\* block computes them once calculate_engagement_rate has returned.
ScoreByFormula(m) ==
    LET engagement == m.likes + m.comments + m.shares
        E == calculate_engagement_rate(m.likes, m.shares, m.comments, m.views,
                                       Impressions(m))
        V == calculate_velocity(engagement, 0, 60)
        S == calculate_sentiment_strength(m.sentiment, "S" \in m.fails)
        Q == calculate_quality_multiplier(m.toxicity, m.language_confidence,
                                          m.is_spam, "Q" \in m.fails)
        R == calculate_regional_weight(m.region, m.is_sa)
    IN  ViralityMetrics(E, V, S, Q, R, Lesser((E + V + S) * Q * R, 100000000))

\* The parameters calculate_engagement_rate declares after self: likes,
\* shares, comments, views, impressions.
EngagementRateParameters == 5
\* The arguments calculate_virality_score passes to it: engagement,
\* impressions.
EngagementRateArguments == 2

\* An except clause returning quality_multiplier = 0.0.
ZeroScore_zero_quality == ViralityMetrics(0, 0, 0, 0, 100, 0)

\* The result of the except clause of calculate_virality_score.
ZeroScore == ViralityMetrics(0, 0, 0, 10, 100, 0)

\* The call of calculate_engagement_rate is the first statement after the
\* inputs are read; a call with the wrong number of arguments raises
\* TypeError, which the except clause turns into ZeroScore.
calculate_virality_score(m) ==
    IF EngagementRateArguments # EngagementRateParameters THEN ZeroScore
    ELSE ScoreByFormula(m)

(***************************************************************************)
(* TextCleaner.clean_for_classification on a text given as its sequence of *)
(* characters. The texts are over letters, '#' and the space, on which     *)
(* remove_html_tags, remove_urls, emoji.demojize and unidecode change      *)
(* nothing.                                                                *)
(***************************************************************************)
Chars == {"a", "b", "#", " "}
MaxTextLen == 4
Texts == UNION {[1..n -> Chars] : n \in 0..MaxTextLen}

NoCleaning == [text |-> <<>>, once |-> <<>>, twice |-> <<>>, called |-> FALSE]

\* The characters of x at the positions in keep, in order.
RECURSIVE Pick(_, _, _)
Pick(x, keep, i) ==
    IF i > Len(x) THEN <<>>
    ELSE (IF i \in keep THEN <<x[i]>> ELSE <<>>) \o Pick(x, keep, i + 1)

RECURSIVE lstrip(_)
lstrip(x) == IF x # <<>> /\ Head(x) = " " THEN lstrip(Tail(x)) ELSE x

RECURSIVE rstrip(_)
rstrip(x) ==
    IF x # <<>> /\ x[Len(x)] = " " THEN rstrip(SubSeq(x, 1, Len(x) - 1)) ELSE x

\* str.strip()
strip(x) == rstrip(lstrip(x))

\* re.compile(r'(.)\1{max_repeats,}').sub(r'\1' * max_repeats, text): of a
\* run of more than max_repeats equal characters the first max_repeats stay.
remove_repeated_characters(x, max_repeats) ==
    Pick(x, {i \in 1..Len(x) :
                ~(i > max_repeats /\ \A j \in 1..max_repeats : x[i - j] = x[i])}, 1)

\* re.sub(r'[^a-zA-Z0-9\s.,!?;:]', '', text)
remove_special_characters(x) == Pick(x, {i \in 1..Len(x) : x[i] # "#"}, 1)

\* whitespace_pattern.sub(' ', text).strip()
normalize_whitespace(x) ==
    strip(Pick(x, {i \in 1..Len(x) : ~(i > 1 /\ x[i] = " " /\ x[i - 1] = " ")}, 1))

\* strip, repeated characters, special characters, whitespace: the steps of
\* clean_for_classification that act on these texts, in its order.
CleanForClassification(x) ==
    IF x = <<>> THEN <<>>
    ELSE normalize_whitespace(
             remove_special_characters(
                 remove_repeated_characters(strip(x), 2)))

\* settings.min_virality_score, in whole points
min_virality_score == 50

\* The arguments of is_trending tried, in whole points; threshold <<>> is
\* the default None, <<t>> a threshold passed.
TrendingScores == {0, 30, 50, 70, 100}
TrendingVelocities == {0, 10, 11, 50}
TrendingThresholds == {<<>>, <<0>>, <<30>>, <<50>>, <<70>>, <<100>>}

NoTrending ==
    [virality_score |-> 0, velocity |-> 0, threshold |-> <<>>,
     called |-> FALSE, result |-> FALSE]

\* threshold = threshold or self.min_virality_score: None and 0 are both
\* false in Python, so both give the setting.
EffectiveThreshold(threshold) ==
    IF threshold = <<>> \/ threshold = <<0>> THEN min_virality_score
    ELSE threshold[1]

\* return virality_score >= threshold and velocity > 10
is_trending(virality_score, velocity, threshold) ==
    virality_score >= EffectiveThreshold(threshold) /\ velocity > 10

\* The metrics calculate_topic_virality builds for a post. Processed posts
\* carry 'likes', 'shares', 'comments' and 'views', not the '...Count' keys
\* read here, so every count defaults to 0; the rows of /ingest/cluster
\* carry the counts, of which only the sum is used.
PostMetrics(k, e) ==
    [NoMetrics EXCEPT !.likes = IF k = "cluster" THEN Engagement(e) ELSE 0]

\* The recency-weighted average of the posts' scores, rounded to two
\* places; the weights are positive, so the average of equal scores is that
\* score.
calculate_topic_virality(k, ps) ==
    IF ps = <<>> THEN 0
    ELSE LET scores == {calculate_virality_score(PostMetrics(k, ps[i])).virality_score :
                           i \in 1..Len(ps)}
         IN  IF Cardinality(scores) = 1
             THEN ((CHOOSE s \in scores : TRUE) + 5000) \div 10000
             ELSE 0

(***************************************************************************)
(* TopicCluster.cluster_posts on posts that all carry text.                *)
(***************************************************************************)
ClassCount(ps, c) == Cardinality({i \in 1..Len(ps) : TextClass(ps[i]) = c})

\* apply_clustering: all noise (-1) below min_cluster_size posts; otherwise
\* the density clustering (min_samples = min_cluster_size) labels a post with
\* its text class when at least min_cluster_size posts share it, else -1.
apply_clustering(ps, m, e) ==
    IF Len(ps) < m THEN -1
    ELSE IF ClassCount(ps, TextClass(e)) >= m THEN TextClass(e) ELSE -1

\* The labels other than -1 in the order _group_posts_by_cluster meets them.
RECURSIVE LabelOrder(_, _, _, _)
LabelOrder(ps, m, i, acc) ==
    IF i > Len(ps) THEN acc
    ELSE LET l == apply_clustering(ps, m, ps[i])
         IN  IF l = -1 \/ l \in Range(acc)
             THEN LabelOrder(ps, m, i + 1, acc)
             ELSE LabelOrder(ps, m, i + 1, Append(acc, l))

\* The grouping without its thresholds: one cluster per text class met,
\* whatever its size.
group_posts_by_cluster_any_size(ps, m) ==
    LET classes == {TextClass(ps[i]) : i \in 1..Len(ps)}
        order == Reverse(Desc(classes))
    IN  [k \in 1..Len(order) |->
            [key |-> k - 1,
             posts |-> SelectSeq(ps, LAMBDA e : TextClass(e) = order[k]),
             title |-> TRUE]]

\* _group_posts_by_cluster: one dictionary per label, 'id' = topic_<counter>,
\* kept when its size is at least min_cluster_size.
group_posts_by_cluster(ps, m) ==
    LET order == LabelOrder(ps, m, 1, <<>>)
        all == [k \in 1..Len(order) |->
                  [key |-> k - 1,
                   posts |-> SelectSeq(ps, LAMBDA e :
                                 apply_clustering(ps, m, e) = order[k]),
                   title |-> TRUE]]
    IN  SelectSeq(all, LAMBDA t : Len(t.posts) >= m)

\* The except clause of cluster_posts: one cluster 'fallback_cluster' with
\* all posts and no 'title'.
fallback_cluster(ps) == <<[key |-> -1, posts |-> ps, title |-> FALSE]>>

(***************************************************************************)
(* Rows.                                                                   *)
(***************************************************************************)
\* velocity = total_engagement / max(avg_age_hours, 1), kept as the fraction
Velocity(total) == <<total, IF AvgAgeHours > 1 THEN AvgAgeHours ELSE 1>>

\* db_topic = TrendTopic(...): topic.get('sentiment') is None, the cluster
\* dictionaries carry no 'sentiment' key.
TrendTopicRow(r, k, i, c) ==
    [id |-> Uuid(r, i),
     virality_score |-> calculate_topic_virality(k, c.posts),
     velocity |-> Velocity(TotalEngagement(k, c.posts)),
     engagement |-> TotalEngagement(k, c.posts),
     sentiment |-> "None"]

\* The snapshot taking its engagement from the cluster's 'total_engagement'
\* (0 for these posts) instead of db_topic.engagement.
TrendHistoryRow_total_engagement(t) ==
    [topic_id |-> t.id,
     virality_score |-> t.virality_score,
     engagement |-> 0,
     velocity |-> t.velocity,
     sentiment |-> t.sentiment]

\* history = TrendHistory(topic_id=db_topic.id, ...)
TrendHistoryRow(t) ==
    [topic_id |-> t.id,
     virality_score |-> t.virality_score,
     engagement |-> t.engagement,
     velocity |-> t.velocity,
     sentiment |-> t.sentiment]

TopicIds(rows) == {t.id : t \in rows}

\* The summary an endpoint returns, before its background task has run:
\* ProcessingStats(batch_size=len(posts), processed_count=0, failed_count=0,
\* topics_created=0) of /ingest/process (batch_size=request.limit when no row
\* was found); IngestStatus(collected=len(posts), processed=0, failed=0) of
\* /ingest and the posts_count of /ingest/cluster take the same shape here.
ProcessingStats(n) ==
    [batch_size |-> n, processed_count |-> 0, failed_count |-> 0,
     topics_created |-> 0]

(***************************************************************************)
(* POST /classify (routers/classify_router.py): the requests tried, the    *)
(* providers' answers to them and the cache key.                           *)
(***************************************************************************)
\* request.text; the first carries a trailing blank.
ClassifyTexts ==
    {"Load shedding stage 6 tonight ", "FREE MONEY NOW CLICK",
     "Il fait beau aujourd'hui", "Eish ja nee"}

\* include_sentiment, include_toxicity, include_geo, language
ClassifyOptions ==
    [include_sentiment : BOOLEAN, include_toxicity : BOOLEAN,
     include_geo : BOOLEAN, language : {"auto", "en"}]

\* The two requests of one behaviour, one after the other.
Calls == {1, 2}

Providers == {"sentiment", "toxicity", "geo"}
\* The downstream providers that raise during a request: none, one, or all.
Failures == {{}} \cup {{p} : p \in Providers} \cup {Providers}

\* hashlib.md5(request.text.encode()).hexdigest()
text_hash(t) ==
    CASE t = "Load shedding stage 6 tonight " -> "9da15c03980e432a3de1b0739d7fb44b"
      [] t = "FREE MONEY NOW CLICK" -> "9f304fdbb34e77140bfc0407191a8083"
      [] t = "Il fait beau aujourd'hui" -> "52b817ef310036a5b572094288a062be"
      [] t = "Eish ja nee" -> "9960225e94b64cd5cc09f51e33b07df0"

\* hashlib.md5(str(options_data).encode()).hexdigest()[:8], by
\* <<include_sentiment, include_toxicity, include_geo, language>>
options_digest ==
    (<<TRUE, TRUE, TRUE, "auto">> :> "00eb101d") @@
    (<<TRUE, TRUE, TRUE, "en">> :> "f5c0fa5f") @@
    (<<TRUE, TRUE, FALSE, "auto">> :> "bc7133f0") @@
    (<<TRUE, TRUE, FALSE, "en">> :> "249029a0") @@
    (<<TRUE, FALSE, TRUE, "auto">> :> "a96230f4") @@
    (<<TRUE, FALSE, TRUE, "en">> :> "1ccf1812") @@
    (<<TRUE, FALSE, FALSE, "auto">> :> "f024da2c") @@
    (<<TRUE, FALSE, FALSE, "en">> :> "d91cfc01") @@
    (<<FALSE, TRUE, TRUE, "auto">> :> "c8028f18") @@
    (<<FALSE, TRUE, TRUE, "en">> :> "0bdf9fd4") @@
    (<<FALSE, TRUE, FALSE, "auto">> :> "7d1c162d") @@
    (<<FALSE, TRUE, FALSE, "en">> :> "e7adddf2") @@
    (<<FALSE, FALSE, TRUE, "auto">> :> "dd617769") @@
    (<<FALSE, FALSE, TRUE, "en">> :> "8b74b071") @@
    (<<FALSE, FALSE, FALSE, "auto">> :> "2c72964d") @@
    (<<FALSE, FALSE, FALSE, "en">> :> "7c243dd4")

options_hash(o) ==
    options_digest[<<o.include_sentiment, o.include_toxicity, o.include_geo,
                     o.language>>]

\* The digest of the text alone, whatever the options.
cache_key_text_only(t, o) == <<"classify", text_hash(t), "opts", "">>

\* cache_key = f"classify:{text_hash}:opts:{options_hash}"
cache_key(t, o) == <<"classify", text_hash(t), "opts", options_hash(o)>>

\* text_cleaner.clean_for_classification: strips the text and removes the
\* characters outside letters, digits, whitespace and .,!?;:
clean_for_classification(t) ==
    CASE t = "Load shedding stage 6 tonight " -> "Load shedding stage 6 tonight"
      [] t = "Il fait beau aujourd'hui" -> "Il fait beau aujourdhui"
      [] OTHER -> t

\* text_cleaner.is_spam: of a text longer than 10 characters more than 70%
\* are upper case (17 of 20 here); the cleaned texts carry no hashtag,
\* mention, URL or run of three characters for the other heuristics.
is_spam(c) == c = "FREE MONEY NOW CLICK"

\* language_detector.detect: (language, confidence in percent)
detect(c) ==
    CASE c = "Load shedding stage 6 tonight" -> <<"en", 95>>
      [] c = "FREE MONEY NOW CLICK" -> <<"en", 90>>
      [] c = "Il fait beau aujourdhui" -> <<"fr", 99>>
      [] c = "Eish ja nee" -> <<"af", 60>>

sa_languages == {"en", "af", "zu", "xh", "st", "tn", "ts", "ss", "nr", "ve"}

\* min_confidence=0.7 of classify_text, in percent
SupportedConfidence == 70

is_supported_language(c, min_confidence) ==
    detect(c)[1] \in sa_languages /\ detect(c)[2] >= min_confidence

\* None, and the answer of provider p on the cleaned text c
Null == [kind |-> "null", of |-> ""]
Analysis(p, c) == [kind |-> p, of |-> c]

NoClassifyRequest ==
    [text |-> "", options |-> [include_sentiment |-> FALSE,
                               include_toxicity |-> FALSE,
                               include_geo |-> FALSE, language |-> "auto"],
     failing |-> {}, hit |-> FALSE]

ClassificationResult(t, lang, s, x, g, spam) ==
    [text |-> t, language |-> lang[1],
     language_confidence |-> lang[2], sentiment |-> s, toxicity |-> x,
     geo_classification |-> g, is_spam |-> spam]

\* An HTTP response: status and body.
Response(code, result) == [status |-> code, body |-> result]

NoResponse ==
    Response(0, ClassificationResult("", <<"", 0>>, Null, Null, Null, FALSE))

(***************************************************************************)
(* TopicCluster._generate_sentence_transformer_embeddings and its cache.   *)
(***************************************************************************)
\* self.cache_size_limit; 10000 in the source, scaled down
cache_size_limit == 2
\* The longest list of texts of one call
MaxBatch == 2
EmbedBatches == UNION {[1..n -> ClassifyTexts] : n \in 1..MaxBatch}

NoEmbedded == [texts |-> <<>>, computed |-> {}, result |-> <<>>]

\* _get_cache_key: hashlib.md5(text.encode()).hexdigest()
get_cache_key(text) == text_hash(text)

\* self.model.encode: the embedding of a text, the same whenever computed
encode(text) == <<"embedding", text>>

CacheKeys(c) == {x.key : x \in c}

\* for (i, text), embedding in zip(uncached_texts, new_embeddings):
\*     if len(self.embedding_cache) < self.cache_size_limit:
\*         self.embedding_cache[cache_key] = embedding
RECURSIVE cache_new_embeddings(_, _)
cache_new_embeddings(c, uncached_texts) ==
    IF uncached_texts = <<>> THEN c
    ELSE LET text == Head(uncached_texts)
             key == get_cache_key(text)
             stored == IF Cardinality(c) < cache_size_limit
                       THEN {x \in c : x.key # key}
                            \cup {[key |-> key, embedding |-> encode(text)]}
                       ELSE c
         IN  cache_new_embeddings(stored, Tail(uncached_texts))

\* all_embeddings: per text the cached embedding, or the one just computed
all_embeddings(c, texts) ==
    [i \in 1..Len(texts) |->
        LET hit == {x \in c : x.key = get_cache_key(texts[i])}
        IN  IF hit # {} THEN (CHOOSE x \in hit : TRUE).embedding
            ELSE encode(texts[i])]

(***************************************************************************)
(* SentimentAnalyzer.analyze and its cache.                                *)
(***************************************************************************)
\* The SentimentScore the model computes for a text: score, label and
\* confidence depend on the text; emotions are analysed only on request.
SentimentScore(text, include_emotions) ==
    [score |-> Analysis("sentiment", text),
     emotions |-> IF include_emotions THEN Analysis("emotions", text) ELSE Null]

NoAnalyzed ==
    [text |-> "", include_emotions |-> FALSE, called |-> FALSE,
     result |-> SentimentScore("", FALSE)]

(***************************************************************************)
(* TopicCluster.cluster_posts on any list of posts. A post is given by its *)
(* text ("" for a post without text); its place in the list is its         *)
(* identity. An embedding is determined by the text, and posts of one text *)
(* are within the clustering radius of one another and of no other text.   *)
(***************************************************************************)
PostTextChoices == {"", "load shedding", "rugby"}
MaxPosts == 4
PostLists == UNION {[1..n -> PostTextChoices] : n \in 0..MaxPosts}
\* min_cluster_size as passed by the caller
PassedClusterSizes == {2, 3}

NoClustering ==
    [called |-> FALSE, posts |-> <<>>, min_cluster_size |-> 0,
     cluster_labels |-> <<>>, topics |-> {}]

\* _extract_texts: the non-empty texts, in the order of the posts.
extract_texts(ps) == SelectSeq(ps, LAMBDA t : t # "")

\* generate_embeddings then apply_clustering, one label per text: "-1" for
\* every text when there are fewer than min_cluster_size texts, else the
\* text's class when min_cluster_size texts share it, else "-1".
cluster_labels_of(texts, m) ==
    [i \in 1..Len(texts) |->
        IF Len(texts) < m THEN "-1"
        ELSE IF Cardinality({j \in 1..Len(texts) : texts[j] = texts[i]}) >= m
             THEN texts[i]
             ELSE "-1"]

\* _group_posts_by_cluster: zip(posts, cluster_labels) pairs the post at
\* place i with the label at place i and stops at the shorter list; a topic
\* per label other than -1, kept when its size reaches min_cluster_size.
zip_group_posts_by_cluster(ps, labels, m) ==
    LET paired == 1..Lesser(Len(ps), Len(labels))
        met == {labels[i] : i \in paired} \ {"-1"}
        topic(l) == [label |-> l, posts |-> {i \in paired : labels[i] = l}]
    IN  {t \in {topic(l) : l \in met} : Cardinality(t.posts) >= m}

\* cluster_posts: [] for no posts or no texts, else the grouped topics.
TopicCluster_cluster_posts(ps, m) ==
    IF ps = <<>> \/ extract_texts(ps) = <<>>
    THEN {}
    ELSE zip_group_posts_by_cluster(ps, cluster_labels_of(extract_texts(ps), m), m)

(***************************************************************************)
(* Initial state: no topics; every row unprocessed, or the oldest NumPre   *)
(* rows already processed (IngestEvent rows are written by the backend     *)
(* connectors, models/database.py:173-175).                                *)
(* ingest_router builds its own LanguageDetector() at import and the       *)
(* application never calls load_models() on it (main.lifespan loads        *)
(* another instance), so as wired is_model_loaded is FALSE and             *)
(* process_single_post filters every post. The steps of the orchestrator   *)
(* after process_single_post are written for a loaded detector; TRUE is    *)
(* admitted as well so that those steps are covered, and a behaviour that  *)
(* needs it is one the wiring keeps the shipped service from reaching.     *)
(***************************************************************************)
Init ==
    /\ \E pre \in {0, NumPre} : processed = [e \in Events |-> e <= pre]
    /\ topicId = [e \in Events |-> NoTopic]
    /\ topics = {}
    /\ history = {}
    /\ pc = [r \in Runs |-> "idle"]
    /\ kind = [r \in Runs |-> "none"]
    /\ req = [r \in Runs |-> [platform |-> "", limit |-> 0, min_size |-> 0, cutoff |-> 0]]
    /\ batch = [r \in Runs |-> <<>>]
    /\ stats = [r \in Runs |-> ProcessingStats(0)]
    /\ posts = [r \in Runs |-> <<>>]
    /\ clusters = [r \in Runs |-> <<>>]
    /\ idx = [r \in Runs |-> 1]
    /\ topic_id = [r \in Runs |-> <<>>]
    /\ outcome = [r \in Runs |-> <<>>]
    /\ topics_created = [r \in Runs |-> 0]
    /\ cluster_error = [r \in Runs |-> "none"]
    /\ pendTopics = [r \in Runs |-> {}]
    /\ pendHistory = [r \in Runs |-> {}]
    /\ txRows = [r \in Runs |-> {}]
    /\ logged_error = [r \in Runs |-> FALSE]
    /\ linked = [e \in Events |-> {}]
    /\ cache = [k \in TrendKeys |-> NoListing]
    /\ rd = NoRequest
    /\ classify_cache = {}
    /\ request = NoClassifyRequest
    /\ invoked = {}
    /\ response = NoResponse
    /\ calls = 0
    /\ metrics = NoMetrics
    /\ virality_metrics = NoViralityMetrics
    /\ trending = NoTrending
    /\ cleaning = NoCleaning
    /\ embedding_cache = {}
    /\ embedded = NoEmbedded
    /\ sentiment_cache = {}
    /\ analyzed = NoAnalyzed
    /\ is_model_loaded \in BOOLEAN
    /\ clustering = NoClustering

(***************************************************************************)
(* The endpoints. Each reads the committed rows and, when it found any,    *)
(* schedules its background task with the rows' dictionaries.              *)
(***************************************************************************)
\* select(IngestEvent).where(processed == False [, platform == p])
\*     .order_by(desc(ingestedAt)).limit(n)
SelectUnprocessed(p, n) ==
    Take(Desc({e \in Events : ~processed[e] /\ (p = "" \/ Platform(e) = p)}), n)

\* Requests are numbered in the order they arrive.
Schedule(r, k, q, found, next) ==
    /\ \A r2 \in Runs : r2 < r => pc[r2] # "idle"
    /\ kind' = [kind EXCEPT ![r] = k]
    /\ req' = [req EXCEPT ![r] = q]
    /\ batch' = [batch EXCEPT ![r] = found]
    /\ stats' = [stats EXCEPT ![r] =
           ProcessingStats(IF found = <<>> /\ k = "process" THEN q.limit
                           ELSE Len(found))]
    /\ pc' = [pc EXCEPT ![r] = IF found = <<>> THEN "done" ELSE next]

\* POST /ingest
trigger_ingestion(r) ==
    /\ pc[r] = "idle"
    /\ \E p \in PlatformFilters \ {""}, n \in Limits :
          Schedule(r, "ingest",
                   [platform |-> p, limit |-> n, min_size |-> MinClusterSize, cutoff |-> 0],
                   SelectUnprocessed(p, n), "scheduled")
    /\ UNCHANGED <<storeVars, taskVars, sessVars, logVars>>
    /\ UNCHANGED <<trendVars, pureVars>>

\* POST /ingest/process
process_ingested_posts(r) ==
    /\ pc[r] = "idle"
    /\ \E p \in PlatformFilters, n \in Limits :
          Schedule(r, "process",
                   [platform |-> p, limit |-> n, min_size |-> MinClusterSize, cutoff |-> 0],
                   SelectUnprocessed(p, n), "scheduled")
    /\ UNCHANGED <<storeVars, taskVars, sessVars, logVars>>
    /\ UNCHANGED <<trendVars, pureVars>>

\* POST /ingest/cluster: the rows with processed == True inside the
\* timeframe; the SELECT states no order, the rows come in insertion order.
cluster_recent_posts(r) ==
    /\ pc[r] = "idle"
    /\ \E p \in PlatformFilters, m \in ClusterSizes, cut \in Cutoffs :
          LET found == Reverse(Desc({e \in Events : /\ e >= cut
                                            /\ processed[e]
                                            /\ (p = "" \/ Platform(e) = p)}))
              q == [platform |-> p, limit |-> 0, min_size |-> m, cutoff |-> cut]
          IN  /\ Schedule(r, "cluster", q, found, "to_cluster")
              /\ posts' = [posts EXCEPT ![r] = found]
    /\ UNCHANGED <<storeVars, clusters, idx, topic_id, outcome, topics_created,
                   cluster_error, sessVars, logVars>>
    /\ UNCHANGED <<trendVars, pureVars>>

(***************************************************************************)
(* process_and_cluster_posts_background, up to its call of                 *)
(* cluster_posts_background: the posts process_single_post accepts, in     *)
(* fetch order; with none accepted the task ends.                          *)
(***************************************************************************)
\* language_detector.is_supported_language for the row: detect returns
\* ("unknown", 0.0) while the detector's model is not loaded.
post_language_supported(e) == is_model_loaded /\ ~Filtered(e)

process_single_post(e) == post_language_supported(e) /\ ~Filtered(e)

process_and_cluster_posts_background(r) ==
    /\ pc[r] = "scheduled"
    /\ LET processed_posts == SelectSeq(batch[r], process_single_post)
       IN  /\ posts' = [posts EXCEPT ![r] = processed_posts]
           /\ pc' = [pc EXCEPT ![r] =
                        IF processed_posts = <<>> THEN "done" ELSE "to_cluster"]
    /\ UNCHANGED <<storeVars, reqVars, clusters, idx, topic_id, outcome,
                   topics_created, cluster_error, sessVars, logVars>>
    /\ UNCHANGED <<trendVars, pureVars>>

(***************************************************************************)
(* cluster_posts_background: topic_cluster.cluster_posts(posts, min).      *)
(***************************************************************************)
StartPersist(r, cs, err) ==
    /\ clusters' = [clusters EXCEPT ![r] = cs]
    /\ cluster_error' = [cluster_error EXCEPT ![r] = err]
    /\ idx' = [idx EXCEPT ![r] = 1]
    /\ topic_id' = [topic_id EXCEPT ![r] = [i \in 1..Len(cs) |-> NoTopic]]
    /\ outcome' = [outcome EXCEPT ![r] = [i \in 1..Len(cs) |-> "pending"]]
    /\ pc' = [pc EXCEPT ![r] = "persist"]

cluster_posts(r) ==
    /\ pc[r] = "to_cluster"
    /\ StartPersist(r, group_posts_by_cluster(posts[r], req[r].min_size), "none")
    /\ UNCHANGED <<storeVars, reqVars, posts, topics_created, sessVars, logVars>>
    /\ UNCHANGED <<trendVars, pureVars>>

\* An exception inside cluster_posts' try block.
cluster_posts_fails(r) ==
    /\ pc[r] = "to_cluster"
    /\ StartPersist(r, fallback_cluster(posts[r]), "other")
    /\ logged_error' = [logged_error EXCEPT ![r] = TRUE]
    /\ UNCHANGED <<storeVars, reqVars, posts, topics_created, sessVars, linked>>
    /\ UNCHANGED <<trendVars, pureVars>>

\* The clustering algorithm raises: apply_clustering catches the exception
\* itself and labels every post noise (-1), so no cluster is formed and
\* cluster_posts returns []: the grouping is the one of the all-noise branch
\* of apply_clustering (fewer posts than the minimum).
clustering_error_clusters(ps, m) == group_posts_by_cluster(ps, Len(ps) + 1)

cluster_posts_clustering_fails(r) ==
    /\ pc[r] = "to_cluster"
    /\ StartPersist(r, clustering_error_clusters(posts[r], req[r].min_size),
                    "clustering")
    /\ logged_error' = [logged_error EXCEPT ![r] = TRUE]
    /\ UNCHANGED <<storeVars, reqVars, posts, topics_created, sessVars, linked>>
    /\ UNCHANGED <<trendVars, pureVars>>

\* The embedding provider raises: generate_embeddings catches the exception
\* itself and returns np.zeros((len(texts), 384)); clustering goes on with
\* identical zero vectors. What the density clustering makes of them under
\* the cosine metric is the library's affair: every post noise, or, with at
\* least min_cluster_size posts, all of them one cluster 'topic_0'.
zero_embedding_clusters(ps, m) ==
    {<<>>} \cup (IF Len(ps) >= m
                 THEN {<<[key |-> 0, posts |-> ps, title |-> TRUE]>>}
                 ELSE {})

cluster_posts_embedding_fails(r) ==
    /\ pc[r] = "to_cluster"
    /\ \E cs \in zero_embedding_clusters(posts[r], req[r].min_size) :
          StartPersist(r, cs, "embedding")
    /\ logged_error' = [logged_error EXCEPT ![r] = TRUE]
    /\ UNCHANGED <<storeVars, reqVars, posts, topics_created, sessVars, linked>>
    /\ UNCHANGED <<trendVars, pureVars>>

(***************************************************************************)
(* cluster_posts_background: one iteration of `for topic in topics`.       *)
(***************************************************************************)
\* await db.rollback(): the rows added in the session since its last commit
\* are dropped, those of earlier iterations included.
rollback(rows) == {}

\* How an iteration over a cluster with a title ends: "ok"; "flush_error",
\* db.flush() raises; "cache_error", cache_service.delete_by_pattern raises
\* after topic['topic_id'] was set and topics_created counted.
IterationOutcomes == {"ok", "flush_error", "cache_error"}

\* cache_service.delete_by_pattern("trend:*"): every 'trend:*' key is deleted.
delete_by_pattern(c) == [k \in DOMAIN c |-> NoListing]

persist_topic(r) ==
    /\ pc[r] = "persist"
    /\ idx[r] <= Len(clusters[r])
    /\ LET i == idx[r]
           c == clusters[r][i]
           t == TrendTopicRow(r, kind[r], i, c)
       IN  \E out \in IF c.title THEN IterationOutcomes ELSE {"key_error"} :
              /\ pendTopics' = [pendTopics EXCEPT ![r] =
                     CASE out = "ok" -> @ \cup {t}
                       [] out = "cache_error" -> rollback(@ \cup {t})
                       [] OTHER -> rollback(@)]
              /\ pendHistory' = [pendHistory EXCEPT ![r] =
                     CASE out = "ok" -> @ \cup {TrendHistoryRow(t)}
                       [] out = "cache_error" -> rollback(@ \cup {TrendHistoryRow(t)})
                       [] OTHER -> rollback(@)]
              /\ logged_error' = [logged_error EXCEPT ![r] = @ \/ out # "ok"]
              /\ topic_id' = [topic_id EXCEPT ![r][i] =
                     IF out \in {"ok", "cache_error"} THEN t.id ELSE @]
              /\ topics_created' = [topics_created EXCEPT ![r] =
                     IF out \in {"ok", "cache_error"} THEN @ + 1 ELSE @]
              /\ outcome' = [outcome EXCEPT ![r][i] =
                     IF out = "ok" THEN "ok" ELSE "failed"]
              /\ idx' = [idx EXCEPT ![r] = i + 1]
              /\ cache' = IF out = "ok" THEN delete_by_pattern(cache) ELSE cache
    /\ UNCHANGED <<storeVars, reqVars, posts, clusters, cluster_error, pc, txRows,
                   linked, rd, pureVars>>

\* After the loop: `if topics_created > 0: await db.commit()`.
commit_topics(r) ==
    /\ pc[r] = "persist"
    /\ idx[r] > Len(clusters[r])
    /\ IF topics_created[r] > 0
       THEN /\ topics' = topics \cup pendTopics[r]
            /\ history' = history \cup pendHistory[r]
            /\ pendTopics' = [pendTopics EXCEPT ![r] = {}]
            /\ pendHistory' = [pendHistory EXCEPT ![r] = {}]
       ELSE UNCHANGED <<topics, history, pendTopics, pendHistory>>
    /\ pc' = [pc EXCEPT ![r] = "mark"]
    /\ UNCHANGED <<processed, topicId, reqVars, taskVars, txRows, logVars>>
    /\ UNCHANGED <<trendVars, pureVars>>

(***************************************************************************)
(* _create_topic_id_mapping and _update_ingest_event_flags.                *)
(***************************************************************************)
\* topic.get('topic_id') or topic.get('id', f"topic_{topic['title']}"): the
\* default is evaluated first, so a cluster without 'title' raises KeyError
\* and the except clause returns {}.
create_topic_id_mapping(cs, tids) ==
    IF \E i \in 1..Len(cs) : ~cs[i].title
    THEN {}
    ELSE UNION {{<<cs[i].posts[j],
                   IF tids[i] # NoTopic THEN tids[i] ELSE ClusterKey(cs[i].key)>> :
                      j \in 1..Len(cs[i].posts)} : i \in 1..Len(cs)}

\* The rows an UPDATE ... WHERE id = e AND processed == False matches.
Matches(ids) == {e \in ids : ~processed[e]}

\* The row images _update_ingest_event_flags writes: with a mapping, one
\* UPDATE per mapped post setting processed and topicId; with an empty
\* mapping, one UPDATE over all post ids setting processed alone.
update_ingest_event_flags(ps, mapping) ==
    IF mapping # {}
    THEN {[id |-> m[1], processed |-> TRUE, topicId |-> m[2]] :
             m \in {x \in mapping : x[1] \in Matches(Range(ps))}}
    ELSE {[id |-> e, processed |-> TRUE, topicId |-> topicId[e]] :
             e \in Matches(Range(ps))}

\* A topicId the declared column (UUID, ForeignKey trend_topics.id) cannot
\* hold: a value that is no uuid, or on a matched row a uuid of no committed
\* TrendTopic. The IngestEvent table belongs to the backend connectors, so
\* whether the store enforces the declaration is not decided by this code:
\* both outcomes are taken.
Dangling(ps, mapping) ==
    \E m \in mapping :
        /\ m[1] \in Range(ps)
        /\ \/ ~IsUuid(m[2])
           \/ m[1] \in Matches(Range(ps)) /\ m[2] \notin TopicIds(topics)

mark_consumed(r) ==
    /\ pc[r] = "mark"
    /\ LET mapping == create_topic_id_mapping(clusters[r], topic_id[r])
           rows == update_ingest_event_flags(posts[r], mapping)
       IN  \* a row written by another open transaction is locked
           /\ \A r2 \in Runs \ {r} :
                 {x.id : x \in txRows[r2]} \cap {x.id : x \in rows} = {}
           /\ \E accepted \in IF Dangling(posts[r], mapping) THEN BOOLEAN ELSE {TRUE} :
                 IF accepted
                 THEN /\ txRows' = [txRows EXCEPT ![r] = rows]
                      /\ linked' = [e \in Events |->
                             linked[e] \cup {x.topicId : x \in
                                 {y \in rows : y.id = e /\ y.topicId # NoTopic}}]
                      /\ logged_error' = [logged_error EXCEPT ![r] =
                             @ \/ \E i \in 1..Len(clusters[r]) : ~clusters[r][i].title]
                 ELSE \* the statement raises; the except clause logs it
                      /\ logged_error' = [logged_error EXCEPT ![r] = TRUE]
                      /\ UNCHANGED <<txRows, linked>>
    /\ pc' = [pc EXCEPT ![r] = "marked"]
    /\ UNCHANGED <<storeVars, reqVars, taskVars, pendTopics, pendHistory>>
    /\ UNCHANGED <<trendVars, pureVars>>

\* Leaving `async with SessionLocal() as db`: the session is closed with no
\* commit after the UPDATE statements, which rolls them back.
close_session(r) ==
    /\ pc[r] = "marked"
    /\ txRows' = [txRows EXCEPT ![r] = rollback(@)]
    /\ pendTopics' = [pendTopics EXCEPT ![r] = rollback(@)]
    /\ pendHistory' = [pendHistory EXCEPT ![r] = rollback(@)]
    \* the task returns: its locals are gone
    /\ posts' = [posts EXCEPT ![r] = <<>>]
    /\ clusters' = [clusters EXCEPT ![r] = <<>>]
    /\ idx' = [idx EXCEPT ![r] = 1]
    /\ topic_id' = [topic_id EXCEPT ![r] = <<>>]
    /\ outcome' = [outcome EXCEPT ![r] = <<>>]
    /\ topics_created' = [topics_created EXCEPT ![r] = 0]
    /\ cluster_error' = [cluster_error EXCEPT ![r] = "none"]
    /\ pc' = [pc EXCEPT ![r] = "done"]
    /\ UNCHANGED <<storeVars, reqVars, logVars>>
    /\ UNCHANGED <<trendVars, pureVars>>

(***************************************************************************)
(* The listing endpoints of trends_router.py, without filters: a cache hit *)
(* returns the cached listing; a miss SELECTs the committed TrendTopic     *)
(* rows, builds the response and then stores it with set_json. The         *)
(* conversion loop names TrendTopicModelSchema, which the module never     *)
(* defines (it imports the schema as TrendTopicSchema): with one row or    *)
(* more the loop raises NameError and the endpoint answers 500, storing    *)
(* nothing.                                                                *)
(***************************************************************************)
ingestVars == <<storeVars, reqVars, taskVars, sessVars, logVars, pc>>

TrendListing(k) ==
    /\ rd.pc = "idle"
    /\ IF cache[k] # NoListing
       THEN rd' = [NoRequest EXCEPT !.key = k, !.status = 200, !.trends = cache[k].trends]
       ELSE LET found == TopicIds(topics)
            IN  IF found # {}
                THEN rd' = [NoRequest EXCEPT !.key = k, !.status = 500]
                ELSE rd' = [NoRequest EXCEPT !.pc = "selected", !.key = k,
                                             !.listing = found]
    /\ UNCHANGED <<ingestVars, cache, pureVars>>

\* GET /trends/current
get_current_trends == TrendListing("trend:current")

\* GET /trends/ZA
get_regional_trends == TrendListing("trend:region:ZA")

\* The rest of a miss: cache_service.set_json(cache_key, response) and return.
cache_trends ==
    /\ rd.pc = "selected"
    /\ cache' = [cache EXCEPT ![rd.key] = Listing(rd.listing)]
    /\ rd' = [NoRequest EXCEPT !.key = rd.key, !.status = 200, !.trends = rd.listing]
    /\ UNCHANGED <<ingestVars, pureVars>>

(***************************************************************************)
(* classify_text (POST /classify).                                         *)
(***************************************************************************)
\* The gate without the spam flag.
downstream_gate_language_only(supported_language, spam) == supported_language

\* `if supported_language and not is_spam:`
downstream_gate(supported_language, spam) == supported_language /\ ~spam

\* One try block around the three classifiers: the first that raises ends
\* the analysis.
continues_after_single_try(raised) == raised = {}

\* Each classifier is called in a try/except of its own: one that raised
\* does not keep the following ones from being called.
continues_after(raised) == TRUE

\* The classifiers called after a cache miss, in the order sentiment,
\* toxicity, geo.
Called(o, gate, failing) ==
    LET s == gate /\ o.include_sentiment
        sRaised == IF s THEN failing \cap {"sentiment"} ELSE {}
        x == gate /\ o.include_toxicity /\ continues_after(sRaised)
        xRaised == sRaised \cup (IF x THEN failing \cap {"toxicity"} ELSE {})
        g == gate /\ o.include_geo /\ continues_after(xRaised)
    IN  (IF s THEN {"sentiment"} ELSE {}) \cup (IF x THEN {"toxicity"} ELSE {})
            \cup (IF g THEN {"geo"} ELSE {})

\* X_result: the provider's answer when it was called and did not raise,
\* else the initial None.
Outcome(p, called, failing, cleaned) ==
    IF p \in called /\ p \notin failing THEN Analysis(p, cleaned) ELSE Null

classify_text ==
    /\ calls < Cardinality(Calls)
    /\ calls' = calls + 1
    /\ \E t \in ClassifyTexts, o \in ClassifyOptions, failing \in Failures :
          LET key == cache_key(t, o)
              cached_result == {x \in classify_cache : x.key = key}
          IN  IF cached_result # {}
              THEN \* return ClassificationResult(**cached_result)
                   /\ response' = Response(200, (CHOOSE x \in cached_result : TRUE).value)
                   /\ invoked' = {}
                   /\ request' = [text |-> t, options |-> o, failing |-> failing,
                                  hit |-> TRUE]
                   /\ UNCHANGED classify_cache
              ELSE LET cleaned_text == clean_for_classification(t)
                       spam == is_spam(cleaned_text)
                       language == IF o.language # "auto" THEN <<o.language, 100>>
                                   ELSE detect(cleaned_text)
                       supported_language ==
                           is_supported_language(cleaned_text, SupportedConfidence)
                       called == Called(o, downstream_gate(supported_language, spam),
                                        failing)
                       result == ClassificationResult(t, language,
                                     Outcome("sentiment", called, failing, cleaned_text),
                                     Outcome("toxicity", called, failing, cleaned_text),
                                     Outcome("geo", called, failing, cleaned_text),
                                     spam)
                   IN  /\ response' = Response(200, result)
                       /\ invoked' = {"text_cleaner", "language_detector"} \cup called
                       /\ request' = [text |-> t, options |-> o,
                                      failing |-> failing, hit |-> FALSE]
                       \* cache_service.set_json(cache_key, result.model_dump());
                       \* `options` notes the request that stored the entry
                       /\ classify_cache' = classify_cache \cup
                              {[key |-> key, value |-> result, options |-> o]}
    /\ UNCHANGED <<ingestVars, trendVars, scoreVars, trendingVars, cleanVars,
                   embedVars, sentimentVars, wiringVars, clusterVars>>

NextClassify == classify_text

SpecClassify == Init /\ [][NextClassify]_vars

(***************************************************************************)
(* A call of ViralityScorer.calculate_virality_score. The function reads   *)
(* and writes no state of the scorer, so a behaviour makes one call.       *)
(***************************************************************************)
score_metrics ==
    /\ metrics = NoMetrics
    /\ \E m \in MetricsInputs :
          /\ metrics' = m
          /\ virality_metrics' = calculate_virality_score(m)
    /\ UNCHANGED <<ingestVars, trendVars, classifyVars, trendingVars,
                   cleanVars, embedVars, sentimentVars, wiringVars,
                   clusterVars>>

NextScore == score_metrics

SpecScore == Init /\ [][NextScore]_vars

(***************************************************************************)
(* A call of ViralityScorer.is_trending.                                   *)
(***************************************************************************)
trending_check ==
    /\ \E v \in TrendingScores, w \in TrendingVelocities,
          t \in TrendingThresholds :
          trending' = [virality_score |-> v, velocity |-> w, threshold |-> t,
                       called |-> TRUE, result |-> is_trending(v, w, t)]
    /\ UNCHANGED <<ingestVars, trendVars, classifyVars, scoreVars, cleanVars,
                   embedVars, sentimentVars, wiringVars, clusterVars>>

NextTrending == trending_check

SpecTrending == Init /\ [][NextTrending]_vars

(***************************************************************************)
(* A text is cleaned, and the result cleaned again. The cleaner keeps no   *)
(* state between calls, so a behaviour makes one call.                     *)
(***************************************************************************)
clean_text ==
    /\ ~cleaning.called
    /\ \E x \in Texts :
          cleaning' = [text |-> x, once |-> CleanForClassification(x),
                       twice |-> CleanForClassification(CleanForClassification(x)),
                       called |-> TRUE]
    /\ UNCHANGED <<ingestVars, trendVars, classifyVars, scoreVars,
                   trendingVars, embedVars, sentimentVars, wiringVars,
                   clusterVars>>

NextClean == clean_text

SpecClean == Init /\ [][NextClean]_vars

(***************************************************************************)
(* The embedding cache: a call for a list of texts, and clear_cache.       *)
(***************************************************************************)
generate_sentence_transformer_embeddings ==
    /\ \E texts \in EmbedBatches :
          LET uncached_texts ==
                  SelectSeq(texts, LAMBDA t :
                      get_cache_key(t) \notin CacheKeys(embedding_cache))
          IN  /\ embedding_cache' =
                     cache_new_embeddings(embedding_cache, uncached_texts)
              /\ embedded' =
                     [texts |-> texts,
                      computed |-> {uncached_texts[i] : i \in 1..Len(uncached_texts)},
                      result |-> all_embeddings(embedding_cache, texts)]
    /\ UNCHANGED <<ingestVars, trendVars, classifyVars, scoreVars,
                   trendingVars, cleanVars, sentimentVars, wiringVars,
                   clusterVars>>

clear_cache ==
    /\ embedding_cache' = {}
    /\ embedded' = NoEmbedded
    /\ UNCHANGED <<ingestVars, trendVars, classifyVars, scoreVars,
                   trendingVars, cleanVars, sentimentVars, wiringVars,
                   clusterVars>>

NextEmbed == generate_sentence_transformer_embeddings \/ clear_cache

SpecEmbed == Init /\ [][NextEmbed]_vars

(***************************************************************************)
(* SentimentAnalyzer.analyze. An entry older than cache_ttl is passed      *)
(* over and replaced; whether an hour has gone by is left open (expired).  *)
(***************************************************************************)
analyze ==
    /\ \E text \in ClassifyTexts, include_emotions \in BOOLEAN,
          expired \in BOOLEAN :
          LET key == get_cache_key(text)
              hit == {x \in sentiment_cache : x.key = key}
          IN  IF hit # {} /\ ~expired
              THEN \* return cached_result
                   /\ analyzed' = [text |-> text,
                                   include_emotions |-> include_emotions,
                                   called |-> TRUE,
                                   result |-> (CHOOSE x \in hit : TRUE).result]
                   /\ UNCHANGED sentiment_cache
              ELSE LET result == SentimentScore(text, include_emotions)
                   IN  /\ analyzed' = [text |-> text,
                                       include_emotions |-> include_emotions,
                                       called |-> TRUE, result |-> result]
                       \* self.cache[cache_key] = (result, time.time())
                       /\ sentiment_cache' =
                              {x \in sentiment_cache : x.key # key}
                              \cup {[key |-> key, result |-> result]}
    /\ UNCHANGED <<ingestVars, trendVars, classifyVars, scoreVars,
                   trendingVars, cleanVars, embedVars, wiringVars,
                   clusterVars>>

sentiment_clear_cache ==
    /\ sentiment_cache' = {}
    /\ UNCHANGED analyzed
    /\ UNCHANGED <<ingestVars, trendVars, classifyVars, scoreVars,
                   trendingVars, cleanVars, embedVars, wiringVars,
                   clusterVars>>

NextSentiment == analyze \/ sentiment_clear_cache

SpecSentiment == Init /\ [][NextSentiment]_vars

\* The steps of request r and of its background task.
Step(r) ==
    \/ trigger_ingestion(r)
    \/ process_ingested_posts(r)
    \/ cluster_recent_posts(r)
    \/ process_and_cluster_posts_background(r)
    \/ cluster_posts(r)
    \/ cluster_posts_fails(r)
    \/ cluster_posts_clustering_fails(r)
    \/ cluster_posts_embedding_fails(r)
    \/ persist_topic(r)
    \/ commit_topics(r)
    \/ mark_consumed(r)
    \/ close_session(r)

Next == \E r \in Runs : Step(r)

Spec == Init /\ [][Next]_vars

\* The request slot is free again for the next POST: the scheduler or a
\* client calls the endpoint repeatedly. Rows of a later request in the slot
\* take the slot's uuids again; SpecRepeat is for the processed flags only.
next_request(r) ==
    /\ pc[r] = "done"
    /\ pc' = [pc EXCEPT ![r] = "idle"]
    /\ kind' = [kind EXCEPT ![r] = "none"]
    /\ req' = [req EXCEPT ![r] =
           [platform |-> "", limit |-> 0, min_size |-> 0, cutoff |-> 0]]
    /\ batch' = [batch EXCEPT ![r] = <<>>]
    /\ stats' = [stats EXCEPT ![r] = ProcessingStats(0)]
    /\ logged_error' = [logged_error EXCEPT ![r] = FALSE]
    /\ UNCHANGED <<storeVars, taskVars, sessVars, linked>>
    /\ UNCHANGED <<trendVars, pureVars>>

\* POST /ingest/process again and again, one run after the other; a run
\* that has started goes on to its end.
NextRepeat ==
    \/ process_ingested_posts(1)
    \/ process_and_cluster_posts_background(1)
    \/ cluster_posts(1)
    \/ persist_topic(1)
    \/ commit_topics(1)
    \/ mark_consumed(1)
    \/ close_session(1)
    \/ next_request(1)

SpecRepeat == Init /\ [][NextRepeat]_vars /\ WF_vars(NextRepeat)

\* One orchestrator run together with the listing endpoints.
NextTrends ==
    \/ Step(1)
    \/ get_current_trends
    \/ get_regional_trends
    \/ cache_trends

SpecTrends == Init /\ [][NextTrends]_vars

(***************************************************************************)
(* A call of TopicCluster.cluster_posts(posts, min_cluster_size).          *)
(***************************************************************************)
call_cluster_posts ==
    /\ ~clustering.called
    /\ \E ps \in PostLists, m \in PassedClusterSizes :
          clustering' = [called |-> TRUE, posts |-> ps, min_cluster_size |-> m,
                         cluster_labels |-> cluster_labels_of(extract_texts(ps), m),
                         topics |-> TopicCluster_cluster_posts(ps, m)]
    /\ UNCHANGED <<ingestVars, trendVars, classifyVars, scoreVars,
                   trendingVars, cleanVars, embedVars, sentimentVars,
                   wiringVars>>

NextCluster == call_cluster_posts

SpecCluster == Init /\ [][NextCluster]_vars

TypeOK ==
    /\ processed \in [Events -> BOOLEAN]
    /\ \A r \in Runs : pc[r] \in {"idle", "scheduled", "to_cluster", "persist",
                                  "mark", "marked", "done"}
    /\ \A r \in Runs : kind[r] \in {"none", "ingest", "process", "cluster"}
    /\ \A r \in Runs : Range(posts[r]) \subseteq Range(batch[r])

(***************************************************************************)
(* What a session sees of an IngestEvent row: its own uncommitted image,   *)
(* else the committed row.                                                 *)
(***************************************************************************)
SessionProcessed(r, e) == processed[e] \/ \E x \in txRows[r] : x.id = e

SessionTopicId(r, e) ==
    IF \E x \in txRows[r] : x.id = e
    THEN (CHOOSE x \in txRows[r] : x.id = e).topicId
    ELSE topicId[e]

Orchestrated(r) == kind[r] \in {"ingest", "process"}
InFlight(r) == pc[r] \notin {"idle", "done"}

(***************************************************************************)
(* Claims.                                                                 *)
(***************************************************************************)

\* C1: two orchestrator runs in flight together never hold the same
\* unprocessed IngestEvent: the batches they fetched are disjoint.
C1_NoRecordClaimedTwice ==
    \A r1, r2 \in Runs :
        (r1 # r2 /\ Orchestrated(r1) /\ Orchestrated(r2)
                 /\ InFlight(r1) /\ InFlight(r2))
        => Range(batch[r1]) \cap Range(batch[r2]) = {}

\* C2: a row with processed = TRUE is never among the posts handed to
\* clustering, by any endpoint's background task.
C2_ConsumedNeverReclustered ==
    \A r \in Runs : \A e \in Range(posts[r]) : ~processed[e]

\* C3: once a run's background task has completed without an error, a second
\* run with the same endpoint, filter and limit fetches no record.
C3_SecondRunFetchesNothing ==
    [][\A r1, r2 \in Runs :
          (/\ r1 # r2
           /\ Orchestrated(r1) /\ pc[r1] = "done" /\ batch[r1] # <<>>
           /\ ~logged_error[r1]
           /\ pc[r2] = "idle" /\ pc'[r2] # "idle"
           /\ kind'[r2] = kind[r1] /\ req'[r2] = req[r1])
          => batch'[r2] = <<>>]_vars

C5_FilteredMarkedConsumed ==
    \A r \in Runs :
        (Orchestrated(r) /\ pc[r] = "done")
        => \A e \in Range(batch[r]) :
              Filtered(e) => processed[e] /\ topicId[e] = NoTopic

C7_OtherClustersCommitted ==
    \A r \in Runs :
        pc[r] \in {"mark", "marked"}
        => \A i \in 1..Len(clusters[r]) :
              outcome[r][i] = "ok"
              => /\ topic_id[r][i] \in TopicIds(topics)
                 /\ \E h \in history : h.topic_id = topic_id[r][i]

C9_TopicAndSnapshotAtomic ==
    /\ \A t \in topics :
          /\ Cardinality({h \in history : h.topic_id = t.id}) = 1
          /\ \A h \in history :
                h.topic_id = t.id
                => /\ h.virality_score = t.virality_score
                   /\ h.engagement = t.engagement
                   /\ h.velocity = t.velocity
                   /\ h.sentiment = t.sentiment
    /\ \A h \in history : h.topic_id \in TopicIds(topics)

\* A batch in which one cluster's persist failed and a later cluster, with
\* positive engagement, was committed.
C9_Witness ==
    \E r \in Runs :
        /\ pc[r] \in {"mark", "marked"}
        /\ \E i \in 1..Len(clusters[r]) : outcome[r][i] = "failed"
        /\ \E t \in topics : t.id[2] = r /\ t.engagement > 0

C11_NoStaleListing ==
    \A r \in Runs :
        pc[r] = "done"
        => \A k \in TrendKeys :
              cache[k] # NoListing
              => {t \in TopicIds(topics) : t[2] = r} \subseteq cache[k].trends

C13_FallbackKeepsAllPosts ==
    \A r \in Runs :
        (pc[r] = "persist" /\ cluster_error[r] \in {"embedding", "clustering"})
        => /\ Len(clusters[r]) = 1
           /\ clusters[r][1].posts = posts[r]

ResultField(result, p) ==
    CASE p = "sentiment" -> result.sentiment
      [] p = "toxicity" -> result.toxicity
      [] p = "geo" -> result.geo_classification

\* request.include_<p>
Requested(o, p) ==
    CASE p = "sentiment" -> o.include_sentiment
      [] p = "toxicity" -> o.include_toxicity
      [] p = "geo" -> o.include_geo

\* The text of the last request is in a supported language with confidence
\* of at least 0.7 and is not spam.
Eligible ==
    LET c == clean_for_classification(request.text)
    IN  is_supported_language(c, SupportedConfidence) /\ ~is_spam(c)

\* C15: when the text of a classify_text request is not in a supported
\* language with confidence >= 0.7, or is spam, no sentiment, toxicity or geo
\* provider is invoked and the three fields of the result are null.
C15_IneligibleSkipsDownstream ==
    (calls > 0 /\ ~Eligible)
    => /\ invoked \cap Providers = {}
       /\ \A p \in Providers : ResultField(response.body, p) = Null

\* A spam text in a supported language, all three analyses requested, no
\* cache entry: only the cleaner and the language detector were invoked.
C15_Witness ==
    /\ calls > 0 /\ ~request.hit
    /\ is_spam(clean_for_classification(request.text))
    /\ is_supported_language(clean_for_classification(request.text),
                             SupportedConfidence)
    /\ \A p \in Providers : Requested(request.options, p)
    /\ invoked = {"text_cleaner", "language_detector"}

\* C16: after a cache miss on an eligible text, every requested classifier
\* was invoked; the field of one that raised is null, the field of every
\* other holds its answer, and the response is 200.
C16_FailureIsolated ==
    (calls > 0 /\ ~request.hit /\ Eligible)
    => /\ response.status = 200
       /\ \A p \in Providers :
             Requested(request.options, p)
             => /\ p \in invoked
                /\ ResultField(response.body, p) =
                      IF p \in request.failing THEN Null
                      ELSE Analysis(p, clean_for_classification(request.text))

\* The sentiment provider raised, toxicity and geo were requested too and
\* returned their answers.
C16_Witness ==
    /\ calls > 0 /\ ~request.hit /\ Eligible
    /\ request.failing = {"sentiment"}
    /\ \A p \in Providers : Requested(request.options, p)
    /\ response.body.sentiment = Null
    /\ response.body.toxicity # Null
    /\ response.body.geo_classification # Null

\* C17: on a cache hit no provider is invoked and the response is the entry
\* stored for this text by a request with the same options.
C17_CacheHitShortCircuits ==
    (calls > 0 /\ request.hit)
    => /\ invoked = {}
       /\ \E x \in classify_cache :
             /\ x.key = cache_key(request.text, request.options)
             /\ x.value = response.body
             /\ x.value.text = request.text
             /\ x.options = request.options

\* The second request hit the entry the first one stored.
C17_Witness ==
    /\ calls = Cardinality(Calls) /\ request.hit
    /\ Cardinality(classify_cache) = 1
    /\ response.body.sentiment # Null

(***************************************************************************)
(* C18. Every result of calculate_virality_score carries the five          *)
(* components the component rules give for its input, and                  *)
(* virality_score = min((E + V + S) * Q * R, 100).                         *)
(***************************************************************************)
C18_ScoreByFormula ==
    metrics # NoMetrics => virality_metrics = ScoreByFormula(metrics)

(***************************************************************************)
(* C19. Every result of calculate_virality_score, also for an input on     *)
(* which a sub-calculation raises, has virality_score in [0, 100], E and S *)
(* in [0, 100], Q in [0.1, 1.5] and R in [1.0, 1.5].                       *)
(***************************************************************************)
C19_ScoreWithinRanges ==
    metrics # NoMetrics =>
        /\ virality_metrics.virality_score \in 0..100000000
        /\ virality_metrics.engagement_rate \in 0..10000
        /\ virality_metrics.sentiment_strength \in 0..10000
        /\ virality_metrics.quality_multiplier \in 10..150
        /\ virality_metrics.regional_weight \in 100..150

\* A result for a spam input with engagement on which the quality
\* multiplier's calculation raises.
C19_Witness ==
    /\ "Q" \in metrics.fails
    /\ metrics.is_spam
    /\ metrics.likes + metrics.comments + metrics.shares = 57
    /\ virality_metrics = calculate_virality_score(metrics)

\* likes + shares + comments of the member posts, as process_single_post
\* sums them per post.
RECURSIVE MemberEngagement(_)
MemberEngagement(ps) ==
    IF ps = <<>> THEN 0 ELSE Engagement(Head(ps)) + MemberEngagement(Tail(ps))

\* The rows of `rows` holding the topic persisted for cluster i of run r.
PersistedTopics(r, i, rows) == {t \in rows : t.id = topic_id[r][i]}

C21_HighToxicityLowersQ ==
    (metrics # NoMetrics /\ metrics.toxicity = 90 /\ "Q" \notin metrics.fails)
    => virality_metrics.quality_multiplier
         < calculate_virality_score([metrics EXCEPT !.toxicity = 10]).quality_multiplier

(***************************************************************************)
(* C27. When a sub-calculation raises during calculate_virality_score,     *)
(* that sub-score takes its default (S: 0, Q: 0.5) and every other         *)
(* sub-score keeps the value its rule computes from the input.             *)
(***************************************************************************)
C27_FailureKeepsOtherSubScores ==
    (metrics # NoMetrics /\ metrics.fails # {}) =>
        LET m == metrics
            v == virality_metrics
        IN  /\ v.engagement_rate =
                  calculate_engagement_rate(m.likes, m.shares, m.comments,
                                            m.views, Impressions(m))
            /\ v.velocity =
                  calculate_velocity(m.likes + m.comments + m.shares, 0, 60)
            /\ v.sentiment_strength =
                  calculate_sentiment_strength(m.sentiment, "S" \in m.fails)
            /\ v.quality_multiplier =
                  calculate_quality_multiplier(m.toxicity, m.language_confidence,
                                               m.is_spam, "Q" \in m.fails)
            /\ v.regional_weight = calculate_regional_weight(m.region, m.is_sa)

(***************************************************************************)
(* C22. For every virality_score, velocity and threshold passed, a         *)
(* threshold of 0 included, is_trending returns true exactly when          *)
(* virality_score >= threshold and velocity > 10.                          *)
(***************************************************************************)
C22_TrendingByPassedThreshold ==
    (trending.called /\ trending.threshold # <<>>) =>
        (trending.result <=>
            (/\ trending.virality_score >= trending.threshold[1]
             /\ trending.velocity > 10))

(***************************************************************************)
(* C23. The normalizer is idempotent: cleaning a cleaned text gives the    *)
(* cleaned text.                                                           *)
(***************************************************************************)
C23_CleanIdempotent == cleaning.called => cleaning.twice = cleaning.once

(***************************************************************************)
(* C24. The embedding cache never holds more than cache_size_limit         *)
(* entries, and every embedding a call has just computed is in the cache   *)
(* after the call, also when the cache was at the limit.                   *)
(***************************************************************************)
C24_BoundedAndStillCaching ==
    /\ Cardinality(embedding_cache) <= cache_size_limit
    /\ \A t \in embedded.computed :
          get_cache_key(t) \in CacheKeys(embedding_cache)

(***************************************************************************)
(* C25. A call of analyze answered from the cache returns what the call    *)
(* returns with the cache cleared, whatever calls came before.             *)
(***************************************************************************)
C25_CacheIsPureAcceleration ==
    analyzed.called =>
        analyzed.result = SentimentScore(analyzed.text, analyzed.include_emotions)

(***************************************************************************)
(* C26. A run removes 'trend:*' cache entries only after it has committed  *)
(* its TrendTopic rows and marked its records consumed: the step that      *)
(* invalidates comes after MARK_CONSUMED.                                  *)
(***************************************************************************)
C26_InvalidateAfterMarkConsumed ==
    [][\A r \in Runs :
          (/\ idx'[r] # idx[r]
           /\ \E k \in TrendKeys : cache[k].present /\ ~cache'[k].present)
          => pc[r] = "marked"]_vars

\* The runs so far are POST /ingest/process with limit 4 and no platform
\* filter, and none has met a failure.
FixedLimitNoFailure ==
    \A r \in Runs :
        /\ kind[r] \in {"none", "process"}
        /\ kind[r] = "process" => req[r].limit = 4 /\ req[r].platform = ""
        /\ cluster_error[r] = "none"
        /\ ~logged_error[r]

(***************************************************************************)
(* C28. Under repeated runs with a fixed limit and no failure, every       *)
(* IngestEvent is eventually marked processed.                             *)
(***************************************************************************)
C28_EveryRecordEventuallyProcessed ==
    []FixedLimitNoFailure => <>(\A e \in Events : processed[e])

(***************************************************************************)
(* C29. The language detector process_single_post calls is loaded: every   *)
(* fetched post that is non-empty, not spam, not toxic and in a supported  *)
(* language is accepted by process_single_post and handed on to the        *)
(* clustering.                                                             *)
(***************************************************************************)
C29_AcceptablePostAccepted ==
    [][\A r \in Runs :
          (pc[r] = "scheduled" /\ pc'[r] # "scheduled")
          => \A e \in Range(batch[r]) : ~Filtered(e) => e \in Range(posts'[r])]_vars

\* C30: each post placed in an emitted cluster is the post whose own text
\* received that cluster's label, also when the list given to cluster_posts
\* holds posts without text: such a post is in no cluster, and a post with
\* text is only in the cluster of the label at its place among the texts.
C30_ClusterHoldsItsOwnPosts ==
    clustering.called =>
        \A t \in clustering.topics : \A i \in t.posts :
            LET place == Len(extract_texts(SubSeq(clustering.posts, 1, i)))
            IN  /\ clustering.posts[i] # ""
                /\ clustering.cluster_labels[place] = t.label

=============================================================================
